---- MODULE Spec2Model ----
(***************************************************************************)
(* A model of ikLogParser.py: the brace-aware tokenizer GetT3RequestInfo,  *)
(* the field decoder OrganizeT3Info, the projector GetLetyInfo and the     *)
(* line loop of ParseIkLog.                                                *)
(*                                                                         *)
(* A Python str is modelled as a sequence of one-character strings, so     *)
(* that indexing, splitting, stripping and parsing are computed character  *)
(* by character as the code computes them.                                 *)
(***************************************************************************)
EXTENDS Integers, Sequences, FiniteSets, TLC

VARIABLES
    \* GetT3RequestInfo, run one loop iteration at a time
    string, delimiter, i, separated, entry, inside_brace, tpc,
    \* the token list, the decoded record and the projection of the last call
    \* of OrganizeT3Info / GetLetyInfo
    t3info, info, letyData, dpc,
    \* ParseIkLog
    filein, LetyID, iline, fileout, letyNum, status

tokVars  == <<string, delimiter, i, separated, entry, inside_brace, tpc>>
decVars  == <<t3info, info, letyData, dpc>>
logVars  == <<filein, LetyID, iline, fileout, letyNum, status>>
vars     == <<tokVars, decVars, logVars>>

----------------------------------------------------------------------------
(* Bounds of the model *)

\* longest string given to the step-by-step tokenizer
MaxLen == 5

----------------------------------------------------------------------------
(* Generic helpers on sequences and sets *)

Max(S) == CHOOSE x \in S : \A y \in S : y <= x
Min(S) == CHOOSE x \in S : \A y \in S : x <= y

Braces == {"{", "}"}

\* the k-th smallest element of a finite set of integers
Nth(S, k) == CHOOSE p \in S : Cardinality({q \in S : q < p}) = k - 1

\* all sequences over A of length at most n
SeqsUpTo(A, n) == UNION {[1..k -> A] : k \in 0..n}

\* the substrings of s between the consecutive positions of SP
Pieces(s, SP) ==
    [k \in 1..Cardinality(SP) |->
        SubSeq(s, (IF k = 1 THEN 1 ELSE Nth(SP, k - 1) + 1), Nth(SP, k) - 1)]

\* what is left of s after the last position of SP
Rest(s, SP) ==
    SubSeq(s, (IF SP = {} THEN 1 ELSE Max(SP) + 1), Len(s))

\* Python's sep.join(parts)
RECURSIVE Join(_, _)
Join(parts, sep) ==
    IF Len(parts) = 0 THEN <<>>
    ELSE IF Len(parts) = 1 THEN parts[1]
    ELSE parts[1] \o sep \o Join(Tail(parts), sep)

----------------------------------------------------------------------------
(* GetT3RequestInfo: the brace-aware tokenizer *)

\* the locals of GetT3RequestInfo before the loop
TokStart == [separated |-> <<>>, entry |-> <<>>, inside_brace |-> FALSE]

\* a faulty variant: a closing brace does not leave the brace
TokStepNoClose(st, c, d) ==
    IF c = "{" THEN [st EXCEPT !.inside_brace = TRUE, !.entry = Append(@, c)]
    ELSE IF c = "}" THEN [st EXCEPT !.entry = Append(@, c)]
    ELSE IF c = d /\ st.inside_brace = FALSE
         THEN [st EXCEPT !.separated = Append(@, st.entry), !.entry = <<>>]
    ELSE [st EXCEPT !.entry = Append(@, c)]

\* a faulty variant: the delimiter splits inside braces too
TokStepSplitInside(st, c, d) ==
    IF c = "{" THEN [st EXCEPT !.inside_brace = TRUE, !.entry = Append(@, c)]
    ELSE IF c = "}" THEN [st EXCEPT !.inside_brace = FALSE, !.entry = Append(@, c)]
    ELSE IF c = d
         THEN [st EXCEPT !.separated = Append(@, st.entry), !.entry = <<>>]
    ELSE [st EXCEPT !.entry = Append(@, c)]

\* a faulty variant: an empty entry is not flushed at a delimiter
TokStepSkipEmpty(st, c, d) ==
    IF c = "{" THEN [st EXCEPT !.inside_brace = TRUE, !.entry = Append(@, c)]
    ELSE IF c = "}" THEN [st EXCEPT !.inside_brace = FALSE, !.entry = Append(@, c)]
    ELSE IF c = d /\ st.inside_brace = FALSE
         THEN IF st.entry = <<>> THEN st
              ELSE [st EXCEPT !.separated = Append(@, st.entry), !.entry = <<>>]
    ELSE [st EXCEPT !.entry = Append(@, c)]

\* one iteration of the for loop, on character c
TokStep(st, c, d) ==
    IF c = "{" THEN [st EXCEPT !.inside_brace = TRUE, !.entry = Append(@, c)]
    ELSE IF c = "}" THEN [st EXCEPT !.inside_brace = FALSE, !.entry = Append(@, c)]
    ELSE IF c = d /\ st.inside_brace = FALSE
         THEN [st EXCEPT !.separated = Append(@, st.entry), !.entry = <<>>]
    ELSE [st EXCEPT !.entry = Append(@, c)]

\* a faulty variant: the final flush appends the entry even when it is empty
TokFlushAlways(st) == Append(st.separated, st.entry)

\* the final flush and the value returned
TokFlush(st) ==
    IF Len(st.entry) # 0 THEN Append(st.separated, st.entry) ELSE st.separated

\* the for loop from character k on, st being the locals so far (the test
\* on nx has the locals of an iteration computed before the next one starts)
RECURSIVE TokScan(_, _, _, _)
TokScan(st, s, d, k) ==
    IF k > Len(s) THEN st
    ELSE LET nx == TokStep(st, s[k], d) IN
         IF nx.inside_brace \in BOOLEAN THEN TokScan(nx, s, d, k + 1) ELSE nx

\* the function as a whole
GetT3RequestInfo(s, d) == TokFlush(TokScan(TokStart, s, d, 1))

----------------------------------------------------------------------------
(* Python's str methods and number parsing, on sequences of characters *)

\* the characters str.strip() removes (of those the inputs hold)
Whitespace == {" ", "\t", "\n", "\r", "\f"}

Digits == <<"0", "1", "2", "3", "4", "5", "6", "7", "8", "9">>
DigitSet == {Digits[k] : k \in 1..10}
DigitVal(c) == (CHOOSE k \in 1..10 : Digits[k] = c) - 1

\* s.strip(chars): the characters of C removed from both ends
StripChars(s, C) ==
    LET keep == {p \in 1..Len(s) : s[p] \notin C} IN
    IF keep = {} THEN <<>> ELSE SubSeq(s, Min(keep), Max(keep))

\* s.strip()
Strip(s) == StripChars(s, Whitespace)

\* s.split(c) for a one-character separator: one more piece than separators
Split(s, c) ==
    LET P == {p \in 1..Len(s) : s[p] = c} IN
    Append(Pieces(s, P), Rest(s, P))

\* s.startswith(pre)
StartsWith(s, pre) ==
    Len(s) >= Len(pre) /\ SubSeq(s, 1, Len(pre)) = pre

\* s.endswith(suf)
EndsWith(s, suf) ==
    Len(s) >= Len(suf) /\ SubSeq(s, Len(s) - Len(suf) + 1, Len(s)) = suf

\* results of an operation that may raise
Raise(e) == [ok |-> FALSE, err |-> e]
Return(x) == [ok |-> TRUE, v |-> x]

\* no call made yet
Unset == Raise("unset")

\* a digit string with single underscores between digits (Python's digitpart)
DigitPart(b) ==
    /\ Len(b) > 0
    /\ \A p \in 1..Len(b) : b[p] \in DigitSet \cup {"_"}
    /\ b[1] \in DigitSet /\ b[Len(b)] \in DigitSet
    /\ \A p \in 1..(Len(b) - 1) : ~(b[p] = "_" /\ b[p + 1] = "_")

\* the digits of b, its underscores dropped
OnlyDigits(b) == SelectSeq(b, LAMBDA c : c \in DigitSet)

\* the number a sequence of digits writes
RECURSIVE DigitsVal(_)
DigitsVal(b) ==
    IF Len(b) = 0 THEN 0
    ELSE 10 * DigitsVal(SubSeq(b, 1, Len(b) - 1)) + DigitVal(b[Len(b)])

HasSign(t) == Len(t) > 0 /\ t[1] \in {"+", "-"}
Unsigned(t) == IF HasSign(t) THEN Tail(t) ELSE t
SignOf(t) == IF Len(t) > 0 /\ t[1] = "-" THEN 0 - 1 ELSE 1

\* the text of b before the first c (all of b when it holds no c)
Before(b, c) ==
    IF \E p \in 1..Len(b) : b[p] = c
    THEN SubSeq(b, 1, Min({p \in 1..Len(b) : b[p] = c}) - 1)
    ELSE b

\* the text of b after the first c (empty when it holds no c)
After(b, c) ==
    IF \E p \in 1..Len(b) : b[p] = c
    THEN SubSeq(b, Min({p \in 1..Len(b) : b[p] = c}) + 1, Len(b))
    ELSE <<>>

Has(b, c) == \E p \in 1..Len(b) : b[p] = c

\* the integer written by the digits b under a sign, if b is a digit string
IntOf(b, sign) ==
    IF DigitPart(b)
    THEN Return(sign * DigitsVal(OnlyDigits(b)))
    ELSE Raise("ValueError")

\* int(s) for a str: blanks stripped, a sign, digits
PyInt(s) == IntOf(Unsigned(Strip(s)), SignOf(Strip(s)))

Lower(c) ==
    CASE c = "I" -> "i" [] c = "N" -> "n" [] c = "F" -> "f" [] c = "T" -> "t"
      [] c = "Y" -> "y" [] c = "A" -> "a" [] c = "E" -> "e" [] OTHER -> c

LowerAll(b) == [p \in 1..Len(b) |-> Lower(b[p])]

W_inf      == <<"i", "n", "f">>
W_infinity == <<"i", "n", "f", "i", "n", "i", "t", "y">>
W_nan      == <<"n", "a", "n">>

\* the first d digits of D, zeros added when D is shorter
ShiftDigits(D, d) ==
    IF d <= 0 THEN <<>>
    ELSE IF d <= Len(D) THEN SubSeq(D, 1, d)
    ELSE D \o [k \in 1..(d - Len(D)) |-> "0"]

\* the integer part of the decimal ip.fp times 10^e
TruncDecimal(ip, fp, e) ==
    DigitsVal(ShiftDigits(OnlyDigits(ip) \o OnlyDigits(fp),
                          Len(OnlyDigits(ip)) + e))

\* the mantissa of a float literal: digits, a point, digits
MantissaOk(ip, fp, point) ==
    \/ DigitPart(ip) /\ (fp = <<>> \/ DigitPart(fp))
    \/ ip = <<>> /\ point /\ DigitPart(fp)

\* the value of the exponent of a float literal
ExpoVal(expo) ==
    IF expo = <<>> THEN 0
    ELSE SignOf(expo) * DigitsVal(OnlyDigits(Unsigned(expo)))

\* a float literal mant[e expo], truncated toward zero
FloatNumber(mant, expo, hasE, sign) ==
    IF /\ MantissaOk(Before(mant, "."), After(mant, "."), Has(mant, "."))
       /\ (hasE => DigitPart(Unsigned(expo)))
    THEN Return(sign * TruncDecimal(Before(mant, "."), After(mant, "."),
                                    IF hasE THEN ExpoVal(expo) ELSE 0))
    ELSE Raise("ValueError")

\* int(float(.)) of an unsigned literal in lower case
FloatUnsigned(b, sign) ==
    IF b \in {W_inf, W_infinity} THEN Raise("OverflowError")
    ELSE IF b = W_nan THEN Raise("ValueError")
    ELSE FloatNumber(Before(b, "e"), After(b, "e"), Has(b, "e"), sign)

\* int(float(s)): Python's float literal grammar, then truncation toward
\* zero. The result is exact for the literals of this model (at most 15
\* significant digits, results below 2^31), where a double is exact too.
PyIntFloat(s) == FloatUnsigned(LowerAll(Unsigned(Strip(s))), SignOf(Strip(s)))

----------------------------------------------------------------------------
(* OrganizeT3Info: the field decoder *)

\* the three kinds of decoded value; the fields a kind does not use are empty
IntV(n)  == [t |-> "int",  n |-> n, l |-> <<>>, s |-> <<>>]
ListV(l) == [t |-> "list", n |-> 0, l |-> l,    s |-> <<>>]
StrV(s)  == [t |-> "str",  n |-> 0, l |-> <<>>, s |-> s]

\* list(.) of the results of int on the pieces: the first failure raises
CollectInts(rs) ==
    IF \E k \in 1..Len(rs) : ~rs[k].ok
    THEN Raise("ValueError")
    ELSE Return(ListV([k \in 1..Len(rs) |-> rs[k].v]))

\* list(map(int, value_list))
MapInt(pieces) == CollectInts([k \in 1..Len(pieces) |-> PyInt(pieces[k])])

\* the int of the else branch, or its exception
WrapInt(f) == IF f.ok THEN Return(IntV(f.v)) ELSE f

\* the classification of the stripped text right of the "="
Classify(value) ==
    IF StartsWith(value, <<"{">>) /\ EndsWith(value, <<"}">>)
    THEN MapInt(Split(Strip(SubSeq(value, 2, Len(value) - 1)), " "))
    ELSE IF StartsWith(value, <<"\"">>) /\ EndsWith(value, <<"\"">>)
    THEN Return(StrV(value))
    ELSE WrapInt(PyIntFloat(value))

\* value.strip(), then the classification
DecodeValue(raw) == Classify(Strip(raw))

HasEq(tok) == \E p \in 1..Len(tok) : tok[p] = "="
FirstEq(tok) == Min({p \in 1..Len(tok) : tok[p] = "="})
LastEq(tok) == Max({p \in 1..Len(tok) : tok[p] = "="})

\* a faulty variant: the key is trimmed
KeyOfTrimmed(tok) == Strip(SubSeq(tok, 1, FirstEq(tok) - 1))

\* string.split("=", 1): the key, as it stands
KeyOf(tok) == SubSeq(tok, 1, FirstEq(tok) - 1)

\* a faulty variant: the token is split at its last "="
RawValueOfLast(tok) == SubSeq(tok, LastEq(tok) + 1, Len(tok))

\* string.split("=", 1): the text right of the first "="
RawValueOf(tok) == SubSeq(tok, FirstEq(tok) + 1, Len(tok))

RECURSIVE OrganizeFrom(_, _, _)

\* a faulty variant: a token whose value does not decode is skipped
StoreSkipBad(tokens, k, dict, d) ==
    IF ~d.ok THEN OrganizeFrom(tokens, k + 1, dict)
    ELSE OrganizeFrom(tokens, k + 1, (KeyOf(tokens[k]) :> d.v) @@ dict)

\* info[key] = value with the decoded value d, unless decoding raised
Store(tokens, k, dict, d) ==
    IF ~d.ok THEN d
    ELSE OrganizeFrom(tokens, k + 1, (KeyOf(tokens[k]) :> d.v) @@ dict)

\* the loop of OrganizeT3Info from token k on, info being dict so far
OrganizeFrom(tokens, k, dict) ==
    IF k > Len(tokens) THEN Return(dict)
    ELSE IF ~HasEq(tokens[k]) THEN OrganizeFrom(tokens, k + 1, dict)
    ELSE Store(tokens, k, dict, DecodeValue(RawValueOf(tokens[k])))

\* the function as a whole: the dict, or the exception raised
OrganizeT3Info(t3request) == OrganizeFrom(t3request, 1, <<>>)

----------------------------------------------------------------------------
(* GetLetyInfo: the projector *)

K_addresses  == <<"a", "d", "d", "r", "e", "s", "s", "e", "s">>
K_offsets    == <<"o", "f", "f", "s", "e", "t", "s">>
K_window     == <<"w", "i", "n", "d", "o", "w">>
K_refSecond  == <<"r", "e", "f", "S", "e", "c", "o", "n", "d">>
K_refuSecond == <<"r", "e", "f", "u", "S", "e", "c", "o", "n", "d">>

\* the station the program is run for
DefaultLetyID == 97

\* dict[key]
Lookup(dict, key) ==
    IF key \in DOMAIN dict THEN Return(dict[key]) ELSE Raise("KeyError")

\* value.index(x), in Python's counting from 0
IndexOf(value, x) ==
    IF value.t = "int" THEN Raise("AttributeError")
    ELSE IF value.t = "str" THEN Raise("TypeError")
    ELSE LET M == {k \in 1..Len(value.l) : value.l[k] = x} IN
         IF M = {} THEN Raise("ValueError") ELSE Return(Min(M) - 1)

\* a faulty variant: the index is clamped to the last element
SubscriptClamped(value, ind) ==
    IF value.t = "int" THEN Raise("TypeError")
    ELSE IF value.t = "list"
    THEN IF Len(value.l) = 0 THEN Raise("IndexError")
         ELSE IF ind < Len(value.l) THEN Return(IntV(value.l[ind + 1]))
         ELSE Return(IntV(value.l[Len(value.l)]))
    ELSE IF ind < Len(value.s) THEN Return(StrV(<<value.s[ind + 1]>>))
         ELSE Raise("IndexError")

\* value[ind] for ind >= 0
Subscript(value, ind) ==
    IF value.t = "int" THEN Raise("TypeError")
    ELSE IF value.t = "list"
    THEN IF ind < Len(value.l) THEN Return(IntV(value.l[ind + 1]))
         ELSE Raise("IndexError")
    ELSE IF ind < Len(value.s) THEN Return(StrV(<<value.s[ind + 1]>>))
         ELSE Raise("IndexError")

\* dict[key][ind]
LookupAt(dict, key, ind) ==
    LET e == Lookup(dict, key) IN
    IF e.ok THEN Subscript(e.v, ind) ELSE e

\* letyData = [gpsSec, gpsMicroSec, offset, window]
Project5(offset, window, gpsSec, gpsMicroSec) ==
    IF ~gpsMicroSec.ok THEN gpsMicroSec
    ELSE Return(<<gpsSec, gpsMicroSec.v, offset, window>>)

\* gpsMicroSec = data["refuSecond"]
Project4(d, offset, window, gpsSec) ==
    IF ~gpsSec.ok THEN gpsSec
    ELSE Project5(offset, window, gpsSec.v, Lookup(d, K_refuSecond))

\* gpsSec = data["refSecond"]
Project3(d, offset, window) ==
    IF ~window.ok THEN window
    ELSE Project4(d, offset, window.v, Lookup(d, K_refSecond))

\* window = data["window"][ind]
Project2(d, ind, offset) ==
    IF ~offset.ok THEN offset
    ELSE Project3(d, offset.v, LookupAt(d, K_window, ind))

\* offset = data["offsets"][ind]
Project1(d, ind) ==
    IF ~ind.ok THEN ind
    ELSE Project2(d, ind.v, LookupAt(d, K_offsets, ind.v))

\* ind = data["addresses"].index(int(LetyID))
Project0(d, a, id) ==
    IF ~a.ok THEN a ELSE Project1(d, IndexOf(a.v, id))

\* the body of GetLetyInfo after the decoding, statement by statement
Project(d, id) == Project0(d, Lookup(d, K_addresses), id)

\* the local data of GetLetyInfo and what the call returns or raises
LetyFrom(d, id) ==
    [data |-> d, ret |-> IF d.ok THEN Project(d.v, id) ELSE d]

\* the function as a whole
GetLetyInfo(tokens, id) == LetyFrom(OrganizeT3Info(tokens), id)

----------------------------------------------------------------------------
(* ParseIkLog: the loop over the lines of the log *)

S_IkT3       == <<"I", "k", "T", "3">>
S_addressesE == <<"a", "d", "d", "r", "e", "s", "s", "e", "s", "=">>
S_CommaSpace == <<",", " ">>
Header       == <<"#", "g", "p", "s", "S", "e", "c", ",", " ", "g", "p", "s", "M", "i", "c", "r", "o", "S", "e", "c", ",", " ", "o", "f", "f", "s", "e", "t", ",", " ", "w", "i", "n", "d", "o", "w", "\n">>

\* str(n) for an int
RECURSIVE NatToStr(_)
NatToStr(n) ==
    IF n < 10 THEN <<Digits[n + 1]>>
    ELSE NatToStr(n \div 10) \o <<Digits[(n % 10) + 1]>>

IntToStr(n) == IF n < 0 THEN <<"-">> \o NatToStr(0 - n) ELSE NatToStr(n)

\* str(value) for a decoded value
PyStr(value) ==
    IF value.t = "int" THEN IntToStr(value.n)
    ELSE IF value.t = "str" THEN value.s
    ELSE <<"[">>
           \o Join([k \in 1..Len(value.l) |-> IntToStr(value.l[k])], S_CommaSpace)
           \o <<"]">>

\* the text of the data line written for letyT3
DataLine(letyT3) ==
    Join([k \in 1..4 |-> PyStr(letyT3[k])], S_CommaSpace) \o <<"\n">>

\* a faulty variant: a line with more than six fields is taken too
EligibleAtLeastSix(cols) ==
    Len(cols) >= 6 /\ \E k \in 1..Len(cols) : cols[k] = S_IkT3

\* the two tests a line passes before it is parsed
Eligible(cols) ==
    Len(cols) = 6 /\ \E k \in 1..Len(cols) : cols[k] = S_IkT3

\* next(string for string in t3info if string.startswith("addresses=")), or ""
AddressEntry(tokens) ==
    LET A == {k \in 1..Len(tokens) : StartsWith(tokens[k], S_addressesE)} IN
    IF A = {} THEN <<>> ELSE tokens[Min(A)]

\* the pieces the participation test looks into
AddressPieces(address_entry) ==
    Split(StripChars(Split(address_entry, "=")[2], Braces), " ")

\* str(LetyID) in addresses
Participates(address_entry, id) ==
    LET pieces == AddressPieces(address_entry) IN
    \E k \in 1..Len(pieces) : pieces[k] = IntToStr(id)

\* an iteration that ends in continue
Skipped(kind, tokens) ==
    [kind |-> kind, tokens |-> tokens, data |-> Unset, lety |-> Unset]

\* an iteration that calls GetLetyInfo, which returns or raises
Called(tokens, r) ==
    [kind |-> IF r.ret.ok THEN "write" ELSE "fault",
     tokens |-> tokens, data |-> r.data, lety |-> r.ret]

\* the iteration from the search of the address entry on
ProcessEntry(tokens, address_entry, id) ==
    IF address_entry = <<>> THEN Skipped("noaddresses", tokens)
    ELSE IF ~Participates(address_entry, id) THEN Skipped("absent", tokens)
    ELSE Called(tokens, GetLetyInfo(tokens, id))

\* the iteration from the tokens of the request on
ProcessTokens(tokens, id) == ProcessEntry(tokens, AddressEntry(tokens), id)

\* the iteration after the split of the line into cols
ProcessCols(cols, id) ==
    IF ~Eligible(cols) THEN Skipped("shape", <<>>)
    ELSE ProcessTokens(GetT3RequestInfo(cols[5], " "), id)

\* one iteration of the loop on a line: what it does and the locals it sets
ProcessLine(line, id) == ProcessCols(Split(Strip(line), "|"), id)

----------------------------------------------------------------------------
(* The tokenizer run one character at a time on every short string *)

TokAlphabet == {"a", " ", "{", "}"}
TokDelims   == {" ", "{", "}"}

TokLocals == [separated |-> separated, entry |-> entry, inside_brace |-> inside_brace]

DecIdle ==
    /\ t3info = <<>> /\ dpc = "idle"
    /\ info = Unset /\ letyData = Unset

LogIdle ==
    /\ filein = <<>> /\ LetyID = DefaultLetyID /\ iline = 0 /\ fileout = <<>>
    /\ letyNum = 0 /\ status = "idle"

TokInit ==
    /\ string \in SeqsUpTo(TokAlphabet, MaxLen)
    /\ delimiter \in TokDelims
    /\ i = 0
    /\ separated = TokStart.separated
    /\ entry = TokStart.entry
    /\ inside_brace = TokStart.inside_brace
    /\ tpc = "scan"
    /\ DecIdle /\ LogIdle

\* one iteration of the loop: character string[i] in Python's counting
TScan ==
    /\ tpc = "scan"
    /\ i < Len(string)
    /\ LET r == TokStep(TokLocals, string[i + 1], delimiter) IN
        /\ separated' = r.separated
        /\ entry' = r.entry
        /\ inside_brace' = r.inside_brace
    /\ i' = i + 1
    /\ UNCHANGED <<string, delimiter, tpc, decVars, logVars>>

\* the loop is over: final flush and return
TReturn ==
    /\ tpc = "scan"
    /\ i = Len(string)
    /\ separated' = TokFlush(TokLocals)
    /\ tpc' = "done"
    /\ UNCHANGED <<string, delimiter, i, entry, inside_brace, decVars, logVars>>

TokNext == TScan \/ TReturn

TokSpec == TokInit /\ [][TokNext]_vars

----------------------------------------------------------------------------
(* The log files the loop is run on *)

\* longest log file, in lines
MaxLines == 2

\* the stations the program is run for in the model
LetyIDs == {DefaultLetyID, 12}

T_addr_12_97    == <<"a", "d", "d", "r", "e", "s", "s", "e", "s", "=", "{", "1", "2", " ", "9", "7", "}">>
T_addr_97       == <<"a", "d", "d", "r", "e", "s", "s", "e", "s", "=", "{", "9", "7", "}">>
T_addr_33       == <<"a", "d", "d", "r", "e", "s", "s", "e", "s", "=", "{", "3", "3", "}">>
T_addr_097      == <<"a", "d", "d", "r", "e", "s", "s", "e", "s", "=", "{", "0", "9", "7", "}">>
T_addr_97_12_97 == <<"a", "d", "d", "r", "e", "s", "s", "e", "s", "=", "{", "9", "7", " ", "1", "2", " ", "9", "7", "}">>
T_off_1_7       == <<"o", "f", "f", "s", "e", "t", "s", "=", "{", "1", " ", "7", "}">>
T_off_7         == <<"o", "f", "f", "s", "e", "t", "s", "=", "{", "7", "}">>
T_off_quoted    == <<"o", "f", "f", "s", "e", "t", "s", "=", "\"", "a", "b", "\"">>
T_off_7_8_9     == <<"o", "f", "f", "s", "e", "t", "s", "=", "{", "7", " ", "8", " ", "9", "}">>
T_win_0_5       == <<"w", "i", "n", "d", "o", "w", "=", "{", "0", " ", "5", "}">>
T_win_0         == <<"w", "i", "n", "d", "o", "w", "=", "{", "0", "}">>
T_win_0_5_6     == <<"w", "i", "n", "d", "o", "w", "=", "{", "0", " ", "5", " ", "6", "}">>
T_refSecond     == <<"r", "e", "f", "S", "e", "c", "o", "n", "d", "=", "5", "5", "5">>
T_refuSecond    == <<"r", "e", "f", "u", "S", "e", "c", "o", "n", "d", "=", "1", "0">>
T_refuSci       == <<"r", "e", "f", "u", "S", "e", "c", "o", "n", "d", "=", "2", ".", "3", "e", "-", "8">>
T_badList       == <<"x", "=", "{", "a", "}">>
T_badNum        == <<"x", "=", "z", "z">>
T_name          == <<"n", "a", "m", "e", "=", "\"", "f", "o", "o", "\"">>
T_tabKey        == <<"\t", "k", "=", "1">>
T_junk          == <<"j", "u", "n", "k">>

Sub(tokens) == Join(tokens, <<" ">>)

\* both stations take part
R_full ==
    Sub(<<T_addr_12_97, T_off_1_7, T_win_0_5, T_refSecond, T_refuSecond>>)
\* station 97 alone, with a quoted value
R_one ==
    Sub(<<T_addr_97, T_off_7, T_win_0, T_refSecond, T_refuSecond, T_name>>)
\* neither station takes part
R_other ==
    Sub(<<T_addr_33, T_off_7, T_win_0, T_refSecond, T_refuSecond>>)
\* no addresses at all
R_noAddresses == Sub(<<T_refSecond, T_junk>>)
\* addresses twice, the station in the first only
R_dupFirst ==
    Sub(<<T_addr_97, T_addr_33, T_off_7, T_win_0, T_refSecond, T_refuSecond>>)
\* addresses twice, the station in the last only
R_dupLast ==
    Sub(<<T_addr_33, T_addr_97, T_off_7, T_win_0, T_refSecond, T_refuSecond>>)
\* the station written with a leading zero
R_zero ==
    Sub(<<T_addr_097, T_off_7, T_win_0, T_refSecond, T_refuSecond>>)
\* a value that does not decode, the station absent
R_badAbsent == Sub(<<T_addr_33, T_badList>>)
\* a list that does not decode, the station present
R_badList ==
    Sub(<<T_addr_97, T_off_7, T_win_0, T_refSecond, T_refuSecond, T_badList>>)
\* a number that does not decode, the station present
R_badNum ==
    Sub(<<T_badNum, T_addr_12_97, T_off_1_7, T_win_0_5, T_refSecond, T_refuSecond>>)
\* offsets shorter than addresses
R_short ==
    Sub(<<T_addr_12_97, T_off_7, T_win_0_5, T_refSecond, T_refuSecond>>)
\* no refSecond
R_noRefSecond == Sub(<<T_addr_97, T_off_7, T_win_0, T_refuSecond>>)
\* the station twice, a number in scientific notation, a key with a tab
R_sci ==
    Sub(<<T_addr_97_12_97, T_off_7_8_9, T_win_0_5_6, T_refSecond, T_refuSci,
          T_tabKey>>)

\* offsets a quoted string
R_quoted ==
    Sub(<<T_addr_97, T_off_quoted, T_win_0, T_refSecond, T_refuSecond>>)

SubRecords ==
    {R_full, R_one, R_other, R_noAddresses, R_dupFirst, R_dupLast, R_zero,
     R_badAbsent, R_badList, R_badNum, R_short, R_noRefSecond, R_sci,
     R_quoted}

\* a line of the log: its fields joined by "|", and the end of line
Line(fields) == Join(fields, <<"|">>) \o <<"\n">>

F(c) == <<c>>

\* six fields, the marker among them
GoodLine(sub) == Line(<<F("d"), F("t"), S_IkT3, F("m"), sub, F("e")>>)
\* six fields, the marker last and followed by a blank
MarkerLast(sub) ==
    Line(<<F("d"), F("t"), F("m"), F("x"), sub, S_IkT3 \o <<" ">>>>)
\* five fields
FiveFields(sub) == Line(<<F("t"), S_IkT3, F("m"), sub, F("e")>>)
\* seven fields
SevenFields(sub) ==
    Line(<<F("d"), F("t"), S_IkT3, F("m"), sub, F("e"), F("f")>>)
\* six fields, none of them the marker itself
NoMarker(sub) ==
    Line(<<F("d"), F("t"), <<"x">> \o S_IkT3, F("m"), sub, F("e")>>)

Lines ==
    {GoodLine(r) : r \in SubRecords}
      \cup {MarkerLast(R_one)}
      \cup {FiveFields(r) : r \in {R_one, R_badList}}
      \cup {SevenFields(r) : r \in {R_one, R_badList}}
      \cup {NoMarker(r) : r \in {R_one, R_badList}}
      \cup {<<"\n">>}

----------------------------------------------------------------------------
(* ParseIkLog run one line at a time *)

\* ProcessLine, tabulated over the lines and stations of the model
Outcome == [l \in Lines |-> [id \in LetyIDs |-> ProcessLine(l, id)]]

\* what the loop does with the next line
Iteration == Outcome[filein[iline + 1]][LetyID]

InLoop == status = "running" /\ iline < Len(filein)

LogInit ==
    /\ filein \in SeqsUpTo(Lines, MaxLines)
    /\ LetyID \in LetyIDs
    /\ iline = 0
    /\ fileout = <<>>
    /\ letyNum = 0
    /\ status = "start"
    /\ t3info = <<>> /\ info = Unset /\ letyData = Unset /\ dpc = "idle"
    /\ string = <<>> /\ delimiter = " " /\ i = 0 /\ separated = <<>>
    /\ entry = <<>> /\ inside_brace = FALSE /\ tpc = "idle"

\* the output file is opened and the header written
LOpen ==
    /\ status = "start"
    /\ fileout' = <<Header>>
    /\ letyNum' = 0
    /\ status' = "running"
    /\ UNCHANGED <<filein, LetyID, iline, tokVars, decVars>>

\* the line has not six fields, or no field is the marker: continue
LSkipShape ==
    /\ InLoop
    /\ Iteration.kind = "shape"
    /\ iline' = iline + 1
    /\ UNCHANGED <<filein, LetyID, fileout, letyNum, status, tokVars, decVars>>

\* no token starts with "addresses=": continue
LSkipNoAddresses ==
    /\ InLoop
    /\ Iteration.kind = "noaddresses"
    /\ iline' = iline + 1
    /\ t3info' = Iteration.tokens
    /\ UNCHANGED <<filein, LetyID, fileout, letyNum, status, tokVars,
                   info, letyData, dpc>>

\* str(LetyID) is not among the pieces of the address entry: continue
LSkipAbsent ==
    /\ InLoop
    /\ Iteration.kind = "absent"
    /\ iline' = iline + 1
    /\ t3info' = Iteration.tokens
    /\ UNCHANGED <<filein, LetyID, fileout, letyNum, status, tokVars,
                   info, letyData, dpc>>

\* GetLetyInfo returns: the data line is written
LWrite ==
    /\ InLoop
    /\ Iteration.kind = "write"
    /\ iline' = iline + 1
    /\ t3info' = Iteration.tokens
    /\ info' = Iteration.data
    /\ letyData' = Iteration.lety
    /\ letyNum' = letyNum + 1
    /\ fileout' = Append(fileout, DataLine(Iteration.lety.v))
    /\ UNCHANGED <<filein, LetyID, status, tokVars, dpc>>

\* GetLetyInfo raises: nothing catches the exception and the run ends
LFault ==
    /\ InLoop
    /\ Iteration.kind = "fault"
    /\ iline' = iline + 1
    /\ t3info' = Iteration.tokens
    /\ info' = Iteration.data
    /\ letyData' = Iteration.lety
    /\ status' = "fault"
    /\ UNCHANGED <<filein, LetyID, fileout, letyNum, tokVars, dpc>>

\* the lines are exhausted: the files are closed
LClose ==
    /\ status = "running"
    /\ iline = Len(filein)
    /\ status' = "done"
    /\ UNCHANGED <<filein, LetyID, iline, fileout, letyNum, tokVars, decVars>>

Next ==
    \/ LOpen
    \/ LSkipShape
    \/ LSkipNoAddresses
    \/ LSkipAbsent
    \/ LWrite
    \/ LFault
    \/ LClose

Spec == LogInit /\ [][Next]_vars

----------------------------------------------------------------------------
(* OrganizeT3Info applied to token lists *)

\* longest token list given to OrganizeT3Info on its own
MaxTokens == 2

T_k7        == <<"k", "=", "7">>
T_kList     == <<"k", "=", "{", " ", "3", " ", "4", " ", "}">>
T_kBlank    == <<" ", "k", " ", "=", " ", "5", " ">>
T_kQuotedEq == <<"k", "=", "\"", "a", "=", "b", "\"">>
T_kEqEq     == <<"k", "=", "a", "=", "b">>
T_empty     == <<>>

DecTokens ==
    {T_addr_12_97, T_addr_097, T_refuSci, T_badList, T_badNum, T_name,
     T_tabKey, T_junk, T_k7, T_kList, T_kBlank, T_kQuotedEq, T_kEqEq, T_empty}

DecInit ==
    /\ t3info \in SeqsUpTo(DecTokens, MaxTokens)
    /\ info = Unset /\ letyData = Unset /\ dpc = "call"
    /\ LogIdle
    /\ string = <<>> /\ delimiter = " " /\ i = 0 /\ separated = <<>>
    /\ entry = <<>> /\ inside_brace = FALSE /\ tpc = "idle"

\* OrganizeT3Info(t3info) returns or raises
DOrganize ==
    /\ dpc = "call"
    /\ info' = OrganizeT3Info(t3info)
    /\ dpc' = "done"
    /\ UNCHANGED <<t3info, letyData, tokVars, logVars>>

DecNext == DOrganize

DecSpec == DecInit /\ [][DecNext]_vars

----------------------------------------------------------------------------
(* Positions of a string, described without running the tokenizer *)

\* every "{" is followed, as the next brace, by a "}", and every "}" is
\* preceded, as the previous brace, by a "{"
BalancedNonNested(s) ==
    \A p \in 1..Len(s) :
        /\ s[p] = "{" =>
              \E b \in (p + 1)..Len(s) :
                  /\ s[b] = "}"
                  /\ \A q \in (p + 1)..(b - 1) : s[q] \notin Braces
        /\ s[p] = "}" =>
              \E a \in 1..(p - 1) :
                  /\ s[a] = "{"
                  /\ \A q \in (a + 1)..(p - 1) : s[q] \notin Braces

\* position p lies in a brace-enclosed span, the two braces included
InSpan(s, p) ==
    \E a \in 1..p, b \in p..Len(s) :
        /\ a < b
        /\ s[a] = "{" /\ s[b] = "}"
        /\ \A q \in (a + 1)..(b - 1) : s[q] \notin Braces

\* the nearest brace before position p, if any, is an opening one
OpenBefore(s, p) ==
    LET B == {q \in 1..(p - 1) : s[q] \in Braces} IN
    B # {} /\ s[Max(B)] = "{"

\* the occurrences of the delimiter that are no brace and have no open
\* brace before them: the out-of-brace delimiters of an arbitrary string
OutDelims(s, d) ==
    {p \in 1..Len(s) : s[p] = d /\ s[p] \notin Braces /\ ~OpenBefore(s, p)}

\* the tokens emitted at delimiters, the final flush left out
BeforeFlush ==
    IF Len(entry) # 0 THEN SubSeq(separated, 1, Len(separated) - 1)
    ELSE separated

----------------------------------------------------------------------------
(* C1 *)

\* C1: on a string whose braces are balanced and not nested, a token ends
\* at each occurrence of the delimiter outside a brace-enclosed span and
\* at no occurrence inside one: during the scan the number of tokens is
\* the number of such occurrences passed so far, and the result is the
\* substrings between them followed by the non-empty rest.
C1_SplitsOutsideBracesOnly ==
    BalancedNonNested(string) =>
        LET SP == {p \in 1..Len(string) :
                       string[p] = delimiter /\ ~InSpan(string, p)} IN
        /\ tpc = "scan" =>
              Len(separated) = Cardinality({p \in SP : p <= i})
        /\ tpc = "done" =>
              /\ BeforeFlush = Pieces(string, SP)
              /\ Len(BeforeFlush) = Cardinality(SP)
              /\ separated =
                    IF Rest(string, SP) # <<>>
                    THEN Append(Pieces(string, SP), Rest(string, SP))
                    ELSE Pieces(string, SP)

\* a balanced string with one delimiter inside braces and one outside
C1_Witness ==
    /\ tpc = "done"
    /\ BalancedNonNested(string)
    /\ \E p, q \in 1..Len(string) :
          /\ string[p] = delimiter /\ InSpan(string, p)
          /\ string[q] = delimiter /\ ~InSpan(string, q)
    /\ Len(separated) = 2

----------------------------------------------------------------------------
(* C2 *)

\* C2 as stated: when the input ends on an out-of-brace delimiter the last
\* element of the result is never the empty token.
C2_Original ==
    (/\ tpc = "done"
     /\ Len(string) > 0
     /\ Len(string) \in OutDelims(string, delimiter)
     /\ Len(separated) > 0)
        => separated[Len(separated)] # <<>>

\* C2 amended: the token emitted at an out-of-brace delimiter is empty
\* exactly when that delimiter is at the start of the string or directly
\* follows another out-of-brace delimiter; the final flush never adds an
\* empty token, so an input that ends on an out-of-brace delimiter yields
\* exactly one token per out-of-brace delimiter (its last element is empty
\* only when that final delimiter itself follows another one or starts the
\* string); the empty input yields the empty sequence.
C2_EmptyTokens ==
    tpc = "done" =>
        LET SP == OutDelims(string, delimiter) IN
        /\ Len(BeforeFlush) = Cardinality(SP)
        /\ \A k \in 1..Cardinality(SP) :
              (separated[k] = <<>>) <=>
                  (Nth(SP, k) = 1 \/ (Nth(SP, k) - 1) \in SP)
        /\ Len(separated) > Cardinality(SP) =>
              /\ Len(separated) = Cardinality(SP) + 1
              /\ separated[Len(separated)] # <<>>
        /\ (Len(string) > 0 /\ Len(string) \in SP) =>
              Len(separated) = Cardinality(SP)
        /\ string = <<>> => separated = <<>>

\* two delimiters running, then the end of the input
C2_Witness ==
    /\ tpc = "done"
    /\ Len(string) >= 3
    /\ Len(string) \in OutDelims(string, delimiter)
    /\ (Len(string) - 1) \in OutDelims(string, delimiter)
    /\ separated[Len(separated)] = <<>>
    /\ separated[1] # <<>>

----------------------------------------------------------------------------
(* C9 *)

\* standard bracket depth after the first p characters
RECURSIVE Depth(_, _)
Depth(s, p) ==
    IF p = 0 THEN 0
    ELSE Depth(s, p - 1)
           + (IF s[p] = "{" THEN 1 ELSE IF s[p] = "}" THEN 0 - 1 ELSE 0)

Unbalanced(s) ==
    \/ Depth(s, Len(s)) # 0
    \/ \E p \in 1..Len(s) : Depth(s, p) < 0

\* C9 as stated: on any input with unbalanced braces the flag is true from
\* the point of imbalance to the end of the string, hence true at the end.
C9_Original ==
    (tpc = "done" /\ Unbalanced(string)) => inside_brace = TRUE

\* the opening braces that no closing brace follows
Unclosed(s) ==
    {p \in 1..Len(s) : s[p] = "{" /\ \A q \in (p + 1)..Len(s) : s[q] # "}"}

\* C9 amended: when the input holds an opening brace that no closing brace
\* follows, the flag is true from the first such brace to the end of the
\* string, no token ends after it, and every character from it on lands in
\* the single final token. (A stray closing brace, or an opening brace
\* inside braces that a closing brace follows, does not stop the splitting.)
C9_UnclosedBraceStopsSplitting ==
    Unclosed(string) # {} =>
        LET u == Min(Unclosed(string)) IN
        /\ i >= u => inside_brace = TRUE
        /\ i >= u =>
              Len(separated) - (IF tpc = "done" THEN 1 ELSE 0)
                  = Cardinality({p \in OutDelims(string, delimiter) : p < u})
        /\ tpc = "done" =>
              LET last == separated[Len(separated)] IN
              /\ Len(last) >= Len(string) - u + 1
              /\ SubSeq(last, Len(last) - (Len(string) - u), Len(last))
                    = SubSeq(string, u, Len(string))

\* a split, then an unclosed brace with a delimiter after it
C9_Witness ==
    /\ tpc = "done"
    /\ Unclosed(string) # {}
    /\ \E p \in 1..Len(string) :
          /\ p > Min(Unclosed(string))
          /\ string[p] = delimiter
    /\ Len(separated) = 2

----------------------------------------------------------------------------
(* C10 *)

\* C10: joining the tokens with the delimiter gives back the input, less
\* its last character exactly when the input ends on an out-of-brace
\* delimiter.
C10_JoinRoundTrip ==
    tpc = "done" =>
        IF Len(string) > 0 /\ Len(string) \in OutDelims(string, delimiter)
        THEN Join(separated, <<delimiter>>) \o <<delimiter>> = string
        ELSE Join(separated, <<delimiter>>) = string

\* an input with braces around a delimiter that ends on a delimiter
C10_Witness ==
    /\ tpc = "done"
    /\ Len(string) = MaxLen
    /\ Len(string) \in OutDelims(string, delimiter)
    /\ \E p \in 1..Len(string) : string[p] = delimiter /\ InSpan(string, p)
    /\ Join(separated, <<delimiter>>) # string

----------------------------------------------------------------------------
(* Facts about a line of the log, stated on its text and its decoding *)

\* the stripped line has five bars, and the marker between two of them (or
\* between a bar and an end of the line)
SixFieldsAndMarker(line) ==
    LET l == Strip(line) IN
    /\ Cardinality({p \in 1..Len(l) : l[p] = "|"}) = 5
    /\ \E a \in 1..Len(l), b \in 1..Len(l) :
          /\ a <= b
          /\ SubSeq(l, a, b) = S_IkT3
          /\ (a = 1 \/ l[a - 1] = "|")
          /\ (b = Len(l) \/ l[b + 1] = "|")

\* the tokens of the sub-record of an eligible line
TokensOf(line) == GetT3RequestInfo(Split(Strip(line), "|")[5], " ")

\* some key=value token of the token list has a value that does not decode
SomeUndecodable(tokens) ==
    \E k \in 1..Len(tokens) :
        HasEq(tokens[k]) /\ ~DecodeValue(RawValueOf(tokens[k])).ok

\* the decoded record has an addresses sequence
HasAddressList(d) ==
    d.ok /\ K_addresses \in DOMAIN d.v /\ d.v[K_addresses].t = "list"

\* the integers of the addresses sequence of a decoded record
AddressSet(d) ==
    {d.v[K_addresses].l[k] : k \in 1..Len(d.v[K_addresses].l)}

\* the line passes the participation test of the loop: the first token that
\* starts with "addresses=" lists str(id) among its pieces
Listed(tokens, id) ==
    /\ AddressEntry(tokens) # <<>>
    /\ Participates(AddressEntry(tokens), id)

\* the facts, tabulated over the lines and stations of the model
FactsOf(line, id) ==
    IF ~SixFieldsAndMarker(line)
    THEN [eligible |-> FALSE, undecodable |-> FALSE, listed |-> FALSE,
          decodedAbsent |-> FALSE, decodedPresent |-> FALSE]
    ELSE [eligible |-> TRUE,
          undecodable |-> SomeUndecodable(TokensOf(line)),
          listed |-> Listed(TokensOf(line), id),
          decodedAbsent |->
              /\ HasAddressList(OrganizeT3Info(TokensOf(line)))
              /\ id \notin AddressSet(OrganizeT3Info(TokensOf(line))),
          decodedPresent |->
              /\ HasAddressList(OrganizeT3Info(TokensOf(line)))
              /\ id \in AddressSet(OrganizeT3Info(TokensOf(line)))]

Facts == [l \in Lines |-> [id \in LetyIDs |-> FactsOf(l, id)]]

\* the facts of the k-th line of the log
Fact(k) == Facts[filein[k]][LetyID]

\* the lines read so far
Read == 1..iline

----------------------------------------------------------------------------
(* C3 *)

\* C3 as stated: an eligible line whose decoded record has an addresses
\* sequence without the target (compared as integers) raises no error and
\* adds no data line; the loop goes on.
C3_Original ==
    /\ \A k \in Read :
          Fact(k).decodedAbsent => ~(status = "fault" /\ iline = k)
    /\ Len(fileout) <= 1 + Cardinality({k \in Read : ~Fact(k).decodedAbsent})

----------------------------------------------------------------------------
(* C4 *)

\* C4 as stated: an eligible line with a key=value token whose value does
\* not decode stops the run at that line.
C4_Original ==
    \A k \in Read :
        Fact(k).undecodable => (status = "fault" /\ iline = k)

\* C4 amended: an eligible line with a key=value token whose value does not
\* decode stops the run at that line provided the line passes the
\* participation test, that is, its first token starting with "addresses="
\* lists the target among its pieces; the exception ends the run, no data
\* line is written for that line and no later line is read. (A line that
\* fails the participation test is skipped before anything is decoded.)
C4_UndecodableStopsParticipatingLine ==
    /\ \A k \in Read :
          (Fact(k).undecodable /\ Fact(k).listed) =>
              /\ status = "fault" /\ iline = k
              /\ ~letyData.ok
    /\ status = "fault" =>
          /\ Len(fileout) <= iline
          /\ Len(fileout) = 1 + letyNum
          /\ ~ENABLED Next

\* a line is written, then a line with a list that does not decode stops
\* the run
C4_Witness ==
    /\ status = "fault"
    /\ iline = 2 /\ Len(filein) = 2
    /\ Fact(2).undecodable /\ Fact(2).listed
    /\ Len(fileout) = 2
    /\ letyData.err = "ValueError"

----------------------------------------------------------------------------
(* C5 *)

\* the first index of id in the addresses sequence, counted from 1
FirstAt(d, id) ==
    Min({k \in 1..Len(d[K_addresses].l) : d[K_addresses].l[k] = id})

\* d[key] has an element at index ix (counted from 1)
HasElem(d, key, ix) ==
    /\ key \in DOMAIN d
    /\ \/ d[key].t = "list" /\ ix <= Len(d[key].l)
       \/ d[key].t = "str" /\ ix <= Len(d[key].s)

\* that element
Elem(d, key, ix) ==
    IF d[key].t = "list" THEN IntV(d[key].l[ix]) ELSE StrV(<<d[key].s[ix]>>)

\* the last call of GetLetyInfo decoded a record whose addresses hold the
\* target
TargetDecoded == HasAddressList(info) /\ LetyID \in AddressSet(info)

\* C5 as stated: with the target at index i of the decoded addresses,
\* GetLetyInfo fails only if offsets or window has no element at index i.
C5_Original ==
    (TargetDecoded /\ ~letyData.ok) =>
        \/ ~HasElem(info.v, K_offsets, FirstAt(info.v, LetyID))
        \/ ~HasElem(info.v, K_window, FirstAt(info.v, LetyID))

\* C5 amended: with the target at first index i of the decoded addresses,
\* GetLetyInfo returns exactly (refSecond, refuSecond, offsets[i],
\* window[i]), and the data line written is their text; it fails only if
\* offsets or window has no element at index i or the record has no
\* refSecond or no refuSecond, and then the exception ends the run and no
\* data line is written for that trigger.
C5_ProjectionOrFatal ==
    TargetDecoded =>
        LET d == info.v
            ix == FirstAt(info.v, LetyID)
        IN  IF /\ HasElem(d, K_offsets, ix) /\ HasElem(d, K_window, ix)
               /\ K_refSecond \in DOMAIN d /\ K_refuSecond \in DOMAIN d
            THEN /\ letyData.ok
                 /\ letyData.v = <<d[K_refSecond], d[K_refuSecond],
                                   Elem(d, K_offsets, ix), Elem(d, K_window, ix)>>
                 /\ status # "fault"
                 /\ fileout[Len(fileout)] = DataLine(letyData.v)
                 /\ Len(fileout) = 1 + letyNum
            ELSE /\ ~letyData.ok
                 /\ status = "fault"
                 /\ Len(fileout) <= iline
                 /\ Len(fileout) = 1 + letyNum
                 /\ ~ENABLED Next

\* a line is written, then offsets is too short for the target's index
C5_Witness ==
    /\ status = "fault"
    /\ iline = 2
    /\ TargetDecoded
    /\ FirstAt(info.v, LetyID) = 2
    /\ ~HasElem(info.v, K_offsets, 2)
    /\ letyData.err = "IndexError"
    /\ Len(fileout) = 2

----------------------------------------------------------------------------
(* C6 *)

\* C6 as stated: a run without fault ends with the header followed by one
\* data line per eligible line whose decoded addresses hold the target
\* (compared as integers).
C6_Original ==
    status = "done" =>
        /\ fileout[1] = Header
        /\ Len(fileout) = 1 + Cardinality({k \in Read : Fact(k).decodedPresent})

----------------------------------------------------------------------------
(* C7 *)

\* C7: a line is parsed only if its stripped text has six fields, one of
\* them the marker; on any other line the iteration changes nothing but
\* the position in the input, raises nothing, and the loop goes on.
C7_IneligibleLineSkipped ==
    [][(InLoop /\ ~SixFieldsAndMarker(filein[iline + 1])) =>
          /\ iline' = iline + 1
          /\ status' = "running"
          /\ UNCHANGED <<filein, LetyID, fileout, letyNum, t3info, info,
                         letyData>>]_vars

\* a seven-field line whose sub-record would stop the run is passed over,
\* and the next line is written
C7_Witness ==
    /\ status = "done"
    /\ Len(filein) = 2
    /\ filein[1] = SevenFields(R_badList)
    /\ Len(fileout) = 2
    /\ letyNum = 1

----------------------------------------------------------------------------
(* C8 *)

\* the tokens of the list that hold an "="
EqTokens == {k \in 1..Len(t3info) : \E p \in 1..Len(t3info[k]) : t3info[k][p] = "="}

\* the position of the first "=" of a token
EqAt(tok) ==
    CHOOSE p \in 1..Len(tok) :
        tok[p] = "=" /\ \A q \in 1..(p - 1) : tok[q] # "="

Left(tok) == SubSeq(tok, 1, EqAt(tok) - 1)
Right(tok) == SubSeq(tok, EqAt(tok) + 1, Len(tok))

\* C8 as stated: the entry of a token with "=" is stored under the trimmed
\* left side.
C8_Original ==
    (dpc = "done" /\ info.ok) =>
        \A k \in EqTokens : Strip(Left(t3info[k])) \in DOMAIN info.v

\* C8 amended: a token with "=" is split at its first "="; its entry is
\* stored under the left side as it stands (the key is not trimmed), with
\* the right side trimmed and then classified, the last token of a key
\* winning; tokens without "=" add no entry; a value that does not decode
\* raises.
C8_FirstEqSplitKeyVerbatim ==
    dpc = "done" =>
        IF \A k \in EqTokens : Classify(Strip(Right(t3info[k]))).ok
        THEN /\ info.ok
             /\ DOMAIN info.v = {Left(t3info[k]) : k \in EqTokens}
             /\ \A k \in EqTokens :
                   (\A j \in EqTokens : j > k => Left(t3info[j]) # Left(t3info[k]))
                      => info.v[Left(t3info[k])]
                            = Classify(Strip(Right(t3info[k]))).v
        ELSE ~info.ok

\* a key with blanks around it, next to a token without "="
C8_Witness ==
    /\ dpc = "done"
    /\ info.ok
    /\ Len(t3info) = 2
    /\ 1 \in EqTokens /\ 2 \notin EqTokens
    /\ Strip(Left(t3info[1])) # Left(t3info[1])
    /\ DOMAIN info.v = {Left(t3info[1])}

====
